---------------------------- MODULE Spec2Model ----------------------------
(***************************************************************************)
(* Model of the MusicBrainz client library (kellnerd/musicbrainz-ts).      *)
(*                                                                         *)
(* Part I models the include-driven projection written with TypeScript's  *)
(* conditional and mapped types (api_includes.ts) over the entity schemas *)
(* of api_types.ts.  A type is a set of atoms (a union; the empty set is  *)
(* `never`), and the type operators are evaluated as the TypeScript       *)
(* checker evaluates them: conditional types distribute over the members  *)
(* of a naked type parameter, homomorphic mapped types distribute over    *)
(* the members of a union, `infer` collects the union of its candidates.  *)
(*                                                                         *)
(* Part II models the request dispatcher and rate limiter of client.ts.   *)
(***************************************************************************)
EXTENDS Integers, Sequences, FiniteSets, TLC

(***************************************************************************)
(* Part I.a  Representation of types                                       *)
(***************************************************************************)

\* A scalar type (string, number, boolean, null, a literal or a union of literals).
Prim(n) == [k |-> "prim", n |-> n, f |-> {}, t |-> {}, inc |-> {}]

\* An object type named n with the properties f.
Obj(n, f) == [k |-> "obj", n |-> n, f |-> f, t |-> {}, inc |-> {}]

\* The array type Item[] whose item type is the union t.
Arr(t) == [k |-> "arr", n |-> "", f |-> {}, t |-> t, inc |-> {}]

\* $SubQuery<Data, RequiredInclude>: data type t, required includes inc.
SubQuery(t, inc) == [k |-> "sub", n |-> "", f |-> {}, t |-> t, inc |-> inc]

\* A reference to the declared object type named n.
Ref(n) == [k |-> "ref", n |-> n, f |-> {}, t |-> {}, inc |-> {}]

\* A required and an optional property of an object type.
Fld(key, ty) == [key |-> key, opt |-> FALSE, ty |-> ty]
Opt(key, ty) == [key |-> key, opt |-> TRUE, ty |-> ty]

String == Prim("string")
Number == Prim("number")
Boolean == Prim("boolean")
Null == Prim("null")
Undefined == Prim("undefined")
\* The empty tuple type `[]`.
EmptyTuple == Prim("[]")

\* The include type `string` (IncludeParameter itself): every include parameter.
AnyString == "<string>"

\* Scalars that are assignable to string | number | undefined.
StringOrNumberPrims ==
  { "string", "number", "undefined", "IsoDate", "ArtistType", "Gender",
    "ReleasePackaging", "ReleaseStatus", "DataQuality",
    "ReleaseGroupPrimaryType", "ReleaseGroupSecondaryType",
    "RelationshipDirection", "SnakeCase", "empty-string" }

(***************************************************************************)
(* Part I.b  Entity types and include parameters (data/entity.ts)          *)
(***************************************************************************)

entityTypes ==
  << "area", "artist", "collection", "event", "genre", "instrument", "label",
     "place", "recording", "release", "release-group", "series", "url", "work" >>

EntityType == { entityTypes[i] : i \in DOMAIN entityTypes }

CollectableEntityType == EntityType \ {"collection", "genre", "url"}

RelatableEntityType == EntityType \ {"collection", "genre"}

\* `${T}-rels`
RelsOf(T) == T \o "-rels"

RelInclude == { RelsOf(T) : T \in RelatableEntityType }

\* SnakeCase<KebabCase> on the entity type names: every "-" becomes "_".
SnakeCase(T) == IF T = "release-group" THEN "release_group" ELSE T

\* EntityPlural<T>
EntityPlural(T) == IF T = "series" THEN T ELSE T \o "s"

\* Include extends `${infer Type extends RelatableEntityType}-rels` ? Type : never,
\* distributed over the members of Include.
PossibleRelTargetType(Include) ==
  { T \in RelatableEntityType : RelsOf(T) \in Include }


(***************************************************************************)
(* Part I.c  Entity schemas (api_types.ts)                                 *)
(***************************************************************************)

\* Properties of an interface that extends others: own properties replace
\* inherited properties of the same name.
Extend(inherited, own) ==
  { x \in inherited : x.key \notin { y.key : y \in own } } \cup own

MBID == String
IsoCountryCode == String
IsoLanguageCode == String
IsoScriptCode == String
Locale == String
IsoDate == Prim("IsoDate")

DatePeriod ==
  Obj("DatePeriod",
      { Fld("begin", {IsoDate, Null}), Fld("end", {IsoDate, Null}),
        Fld("ended", {Boolean}) })

EntityWithMbid == Obj("EntityWithMbid", { Fld("id", {MBID}) })

WithSortName ==
  Obj("WithSortName", { Fld("name", {String}), Fld("sort-name", {String}) })

WithType(Type) ==
  Obj("WithType", { Fld("type", Type \cup {Null}), Fld("type-id", {MBID, Null}) })

Alias ==
  Obj("Alias",
      Extend(DatePeriod.f \cup WithSortName.f \cup WithType({String}).f,
             { Fld("locale", {Locale, Null}), Fld("primary", {Boolean, Null}) }))

UserRating == Obj("UserRating", { Fld("value", {Number}) })

Rating == Obj("Rating", Extend(UserRating.f, { Fld("votes-count", {Number}) }))

UserTag == Obj("UserTag", { Fld("name", {String}) })

Tag == Obj("Tag", Extend(UserTag.f, { Fld("count", {Number}) }))

S_Genre ==
  Obj("$Genre",
      Extend(EntityWithMbid.f,
             { Fld("name", {String}), Fld("disambiguation", {String}) }))

GenreUserTag == S_Genre

GenreTag == Obj("GenreTag", Extend(GenreUserTag.f, { Fld("count", {Number}) }))

MinimalEntity ==
  Obj("MinimalEntity",
      Extend(EntityWithMbid.f,
             { Fld("disambiguation", {String}),
               Opt("aliases", {SubQuery({Arr({Ref("Alias")})}, {"aliases"})}),
               Opt("rating", {SubQuery({Rating}, {"ratings"})}),
               Opt("user-rating", {SubQuery({UserRating}, {"user-ratings"})}),
               Opt("tags", {SubQuery({Arr({Tag})}, {"tags"})}),
               Opt("user-tags", {SubQuery({Arr({UserTag})}, {"user-tags"})}),
               Opt("genres", {SubQuery({Arr({GenreTag})}, {"genres"})}),
               Opt("user-genres",
                   {SubQuery({Arr({GenreUserTag})}, {"user-genres"})}) }))

WithAnnotation ==
  Obj("WithAnnotation",
      { Fld("annotation", {SubQuery({String, Null}, {"annotation"})}) })

MinimalArea ==
  Obj("MinimalArea",
      Extend(MinimalEntity.f \cup WithSortName.f \cup WithType({String}).f,
             { Opt("iso-3166-1-codes", {Arr({IsoCountryCode})}),
               Opt("iso-3166-2-codes", {Arr({IsoCountryCode})}),
               Opt("iso-3166-3-codes", {Arr({IsoCountryCode})}) }))

MinimalArtist ==
  Obj("MinimalArtist",
      MinimalEntity.f \cup WithSortName.f \cup WithType({Prim("ArtistType")}).f)

ArtistCredit ==
  Obj("ArtistCredit",
      { Fld("name", {String}), Fld("artist", {Ref("MinimalArtist")}),
        Fld("joinphrase", {String}) })

MinimalEvent ==
  Obj("MinimalEvent",
      Extend(MinimalEntity.f \cup WithType({String}).f,
             { Fld("name", {String}), Fld("time", {String}),
               Fld("setlist", {String}), Fld("cancelled", {Boolean}) }))

MinimalInstrument ==
  Obj("MinimalInstrument",
      Extend(MinimalEntity.f \cup WithType({String}).f,
             { Fld("name", {String}), Fld("description", {String}) }))

MinimalLabel ==
  Obj("MinimalLabel",
      Extend(MinimalEntity.f \cup WithSortName.f \cup WithType({String}).f,
             { Fld("label-code", {Number, Null}) }))

Coordinates ==
  Obj("coordinates",
      { Fld("latitude", {Number}), Fld("longitude", {Number}) })

MinimalPlace ==
  Obj("MinimalPlace",
      Extend(MinimalEntity.f \cup WithType({String}).f,
             { Fld("name", {String}), Fld("address", {String}),
               Fld("area", {Ref("MinimalArea"), Null}),
               Fld("coordinates", {Coordinates, Null}) }))

RecordingBase ==
  Obj("RecordingBase",
      Extend(MinimalEntity.f,
             { Fld("title", {String}), Fld("length", {Number, Null}),
               Opt("first-release-date", {IsoDate}), Fld("video", {Boolean}),
               Fld("isrcs", {SubQuery({Arr({String})}, {"isrcs"})}) }))

MinimalRecording ==
  Obj("MinimalRecording",
      Extend(RecordingBase.f,
             { Fld("artist-credit",
                   {SubQuery({Arr({Ref("ArtistCredit")})}, {"artist-credits"})}) }))

ReleaseEvent ==
  Obj("ReleaseEvent",
      { Fld("date", {IsoDate, Prim("empty-string")}),
        Fld("area", {Ref("MinimalArea"), Null}) })

CoverArtArchiveInfo ==
  Obj("CoverArtArchiveInfo",
      { Fld("count", {Number}), Fld("artwork", {Boolean}),
        Fld("front", {Boolean}), Fld("back", {Boolean}),
        Fld("darkened", {Boolean}) })

TextRepresentation ==
  Obj("text-representation",
      { Fld("language", {IsoLanguageCode, Null}),
        Fld("script", {IsoScriptCode, Null}) })

ReleaseBase ==
  Obj("ReleaseBase",
      Extend(MinimalEntity.f,
             { Fld("title", {String}), Opt("date", {IsoDate}),
               Opt("country", {IsoCountryCode, Null}),
               Opt("release-events", {Arr({Ref("ReleaseEvent")})}),
               Fld("barcode", {String, Null}),
               Fld("packaging", {Prim("ReleasePackaging"), Null}),
               Fld("packaging-id", {MBID, Null}),
               Fld("status", {Prim("ReleaseStatus"), Null}),
               Fld("status-id", {MBID, Null}),
               Fld("text-representation", {TextRepresentation}),
               Fld("quality", {Prim("DataQuality")}),
               Opt("cover-art-archive", {CoverArtArchiveInfo}) }))

DiscId ==
  Obj("DiscId",
      { Fld("id", {String}), Fld("sectors", {Number}),
        Fld("offset-count", {Number}), Fld("offsets", {Arr({Number})}) })

MinimalMedium ==
  Obj("MinimalMedium",
      { Fld("position", {Number}), Fld("title", {String}),
        Fld("track-count", {Number}), Fld("format", {String, Null}),
        Fld("format-id", {MBID, Null}),
        Fld("discs", {SubQuery({Arr({DiscId})}, {"discids"})}) })

MinimalTrack ==
  Obj("MinimalTrack",
      Extend(EntityWithMbid.f,
             { Fld("position", {Number}), Fld("number", {String}),
               Fld("title", {String}),
               Fld("artist-credit",
                   {SubQuery({Arr({Ref("ArtistCredit")})}, {"artist-credits"})}),
               Fld("length", {Number, Null}) }))

MinimalMediumWithTracks ==
  Obj("MinimalMediumWithTracks",
      Extend(MinimalMedium.f,
             { Fld("track-offset", {Number}), Opt("pregap", {Ref("MinimalTrack")}),
               Fld("tracks", {Arr({Ref("MinimalTrack")})}),
               Opt("data-tracks", {Arr({Ref("MinimalTrack")})}) }))

MinimalRelease ==
  Obj("MinimalRelease",
      Extend(ReleaseBase.f,
             { Fld("artist-credit",
                   {SubQuery({Arr({Ref("ArtistCredit")})}, {"artist-credits"})}),
               Fld("media",
                   {SubQuery({Arr({Ref("MinimalMedium")})}, {"media", "discids"})}) }))

ReleaseGroupBase ==
  Obj("ReleaseGroupBase",
      Extend(MinimalEntity.f,
             { Fld("title", {String}),
               Fld("primary-type", {Prim("ReleaseGroupPrimaryType"), Null}),
               Fld("primary-type-id", {MBID, Null}),
               Fld("secondary-types", {Arr({Prim("ReleaseGroupSecondaryType")})}),
               Fld("secondary-type-ids", {Arr({MBID})}),
               Fld("first-release-date", {IsoDate, Prim("empty-string")}) }))

\* The `artist-credit` of a nested release group is a union of two sub-queries.
MinimalReleaseGroup ==
  Obj("MinimalReleaseGroup",
      Extend(ReleaseGroupBase.f,
             { Fld("artist-credit",
                   { SubQuery({Arr({Ref("ArtistCredit")})}, {"artist-credits"}),
                     SubQuery({Null}, {"artists"}) }),
               Fld("releases", {SubQuery({EmptyTuple}, {"releases"})}) }))

MinimalReleaseForRecording ==
  Obj("MinimalReleaseForRecording",
      Extend(MinimalRelease.f,
             { Fld("media",
                   {SubQuery({Arr({Ref("MinimalMediumWithTracks")})},
                             {"media", "discids"})}),
               Fld("release-group",
                   {SubQuery({Ref("MinimalReleaseGroup")}, {"release-groups"})}) }))

MinimalSeries ==
  Obj("MinimalSeries",
      Extend(MinimalEntity.f \cup WithType({String}).f, { Fld("name", {String}) }))

EntityAttribute ==
  Obj("EntityAttribute",
      { Fld("type", {String}), Fld("type-id", {MBID}), Fld("value", {String}),
        Opt("value-id", {MBID}) })

MinimalWork ==
  Obj("MinimalWork",
      Extend(MinimalEntity.f \cup WithType({String}).f,
             { Fld("title", {String}), Fld("iswcs", {Arr({String})}),
               Fld("attributes", {Arr({EntityAttribute})}),
               Fld("languages", {Arr({IsoLanguageCode})}),
               Fld("language", {IsoLanguageCode, Null}) }))

LabelInfo ==
  Obj("LabelInfo",
      { Fld("label", {Ref("MinimalLabel"), Null}),
        Fld("catalog-number", {String, Null}) })

CollectionBase(ContentType) ==
  Obj("CollectionBase",
      Extend(EntityWithMbid.f,
             { Fld("name", {String}), Fld("editor", {String}),
               Fld("type", {String}), Fld("type-id", {MBID}),
               Fld("entity-type", {Prim("SnakeCase")}) }))

\* MinimalCollectionTypeMap[ContentType] for one content type.
MinimalCollectionOf(ContentType) ==
  Obj("MinimalCollection<" \o ContentType \o ">",
      Extend(CollectionBase(ContentType).f,
             { Fld(ContentType \o "-count", {Number}) }))

\* MinimalCollection<ContentType>: the union over the given content types.
MinimalCollection(ContentTypes) ==
  { MinimalCollectionOf(T) : T \in ContentTypes }


RelationshipDirection == Prim("RelationshipDirection")

\* Record<string, string>: an object with a string index signature.
RecordOfString == Obj("Record", { Fld("[string]", {String}) })

RelationshipBase(TargetType) ==
  Obj("RelationshipBase",
      { Fld("target-type", {Prim("SnakeCase")}), Fld("type", {String}),
        Fld("type-id", {MBID}), Fld("direction", {RelationshipDirection}),
        Opt("ordering-key", {Number}), Fld("attributes", {Arr({String})}),
        Fld("attribute-values", {RecordOfString}),
        Fld("attribute-ids", {RecordOfString}),
        Opt("attribute-credits", {RecordOfString}),
        Fld("source-credit", {String}), Fld("target-credit", {String}) })

\* Minimal type definitions (for sub-queries); the default include of $Url is
\* IncludeParameter, that is `string`.
MinimalEntityTypeMap(T) ==
  CASE T = "area" -> Ref("MinimalArea")
    [] T = "artist" -> Ref("MinimalArtist")
    [] T = "event" -> Ref("MinimalEvent")
    [] T = "genre" -> S_Genre
    [] T = "instrument" -> Ref("MinimalInstrument")
    [] T = "label" -> Ref("MinimalLabel")
    [] T = "place" -> Ref("MinimalPlace")
    [] T = "recording" -> Ref("MinimalRecording")
    [] T = "release" -> Ref("MinimalRelease")
    [] T = "release-group" -> Ref("MinimalReleaseGroup")
    [] T = "series" -> Ref("MinimalSeries")
    [] T = "work" -> Ref("MinimalWork")
    [] T = "url" -> Ref("$Url")

\* The property of a relationship that holds the target entity.
TargetKey(T) == SnakeCase(T)

RelationshipTypeMap(TargetType) ==
  Obj("Relationship<" \o TargetType \o ">",
      { Fld(TargetKey(TargetType), {MinimalEntityTypeMap(TargetType)}) }
        \cup RelationshipBase(TargetType).f \cup DatePeriod.f)

\* Relationship<TargetType> = RelationshipTypeMap[TargetType]: the union over
\* the members of TargetType, `never` for no target type.
Relationship(TargetType) ==
  { RelationshipTypeMap(T) : T \in TargetType }

\* Entity type can have relationships to other entities.
WithRels(Include) ==
  Obj("WithRels",
      { Fld("relations",
            {SubQuery({Arr(Relationship(PossibleRelTargetType(Include)))},
                      RelInclude)}) })

S_Url(Include) ==
  Obj("$Url",
      Extend(EntityWithMbid.f \cup WithRels(Include).f,
             { Fld("resource", {String}) }))

MinimalRecordingWithRels ==
  Obj("MinimalRecordingWithRels",
      Extend(MinimalRecording.f,
             { Fld("relations",
                   {SubQuery({Arr(Relationship(RelatableEntityType))},
                             {"recording-level-rels"})}) }))

MinimalReleaseGroupWithRels ==
  Obj("MinimalReleaseGroupWithRels",
      Extend(MinimalReleaseGroup.f,
             { Fld("relations",
                   {SubQuery({Arr(Relationship(RelatableEntityType))},
                             {"release-group-level-rels"})}) }))

Track(Recording) ==
  Obj("Track",
      Extend(MinimalTrack.f,
             { Fld("recording", {SubQuery({Recording}, {"recordings"})}) }))

Medium(Recording) ==
  Obj("Medium",
      Extend(MinimalMedium.f,
             { Opt("track-offset", {SubQuery({Number}, {"recordings"})}),
               Opt("pregap", {SubQuery({Track(Recording)}, {"recordings"})}),
               Opt("tracks",
                   {SubQuery({Arr({Track(Recording)})}, {"recordings"})}),
               Opt("data-tracks",
                   {SubQuery({Arr({Track(Recording)})}, {"recordings"})}) }))

S_Area(Include) ==
  Obj("$Area",
      Extend(MinimalArea.f \cup WithAnnotation.f \cup WithRels(Include).f,
             { Fld("life-span", {DatePeriod}) }))

S_Artist(Include) ==
  Obj("$Artist",
      Extend(MinimalArtist.f \cup WithAnnotation.f \cup WithRels(Include).f,
             { Fld("gender", {Prim("Gender"), Null}),
               Fld("gender-id", {MBID, Null}),
               Fld("area", {Ref("MinimalArea"), Null}),
               Fld("country", {IsoCountryCode, Null}),
               Fld("life-span", {DatePeriod}),
               Fld("begin-area", {Ref("MinimalArea"), Null}),
               Opt("begin_area", {Ref("MinimalArea"), Null}),
               Fld("end-area", {Ref("MinimalArea"), Null}),
               Opt("end_area", {Ref("MinimalArea"), Null}),
               Fld("ipis", {Arr({String})}), Fld("isnis", {Arr({String})}),
               Fld("recordings",
                   {SubQuery({Arr({Ref("MinimalRecording")})}, {"recordings"})}),
               Fld("releases",
                   {SubQuery({Arr({Ref("MinimalRelease")})}, {"releases"})}),
               Fld("release-groups",
                   {SubQuery({Arr({Ref("MinimalReleaseGroup")})}, {"release-groups"})}),
               Fld("works", {SubQuery({Arr({Ref("MinimalWork")})}, {"works"})}) }))

S_Event(Include) ==
  Obj("$Event",
      Extend(MinimalEvent.f \cup WithAnnotation.f \cup WithRels(Include).f,
             { Fld("life-span", {DatePeriod}) }))

S_Instrument(Include) ==
  Obj("$Instrument",
      MinimalInstrument.f \cup WithAnnotation.f \cup WithRels(Include).f)

S_Label(Include) ==
  Obj("$Label",
      Extend(MinimalLabel.f \cup WithAnnotation.f \cup WithRels(Include).f,
             { Fld("area", {Ref("MinimalArea"), Null}),
               Fld("country", {IsoCountryCode, Null}),
               Fld("life-span", {DatePeriod}),
               Fld("ipis", {Arr({String})}), Fld("isnis", {Arr({String})}),
               Fld("releases",
                   {SubQuery({Arr({Ref("MinimalRelease")})}, {"releases"})}) }))

S_Place(Include) ==
  Obj("$Place", MinimalPlace.f \cup WithAnnotation.f \cup WithRels(Include).f)

S_Recording(Include) ==
  Obj("$Recording",
      Extend(RecordingBase.f \cup WithAnnotation.f \cup WithRels(Include).f,
             { Fld("artist-credit",
                   {SubQuery({Arr({Ref("ArtistCredit")})},
                             {"artists", "artist-credits"})}),
               Fld("releases",
                   {SubQuery({Arr({Ref("MinimalReleaseForRecording")})},
                             {"releases"})}) }))

S_Release(Include) ==
  Obj("$Release",
      Extend(ReleaseBase.f \cup WithAnnotation.f \cup WithRels(Include).f,
             { Fld("artist-credit",
                   {SubQuery({Arr({Ref("ArtistCredit")})},
                             {"artists", "artist-credits"})}),
               Fld("label-info", {SubQuery({Arr({Ref("LabelInfo")})}, {"labels"})}),
               Fld("media",
                   {SubQuery({Arr({Medium(Ref("MinimalRecordingWithRels"))})},
                             {"media", "discids", "recordings"})}),
               Fld("release-group",
                   {SubQuery({Ref("MinimalReleaseGroupWithRels")}, {"release-groups"})}),
               Fld("collections",
                   {SubQuery({Arr(MinimalCollection({"release"}))},
                             {"collections", "user-collections"})}),
               Fld("asin", {String, Null}) }))

S_ReleaseGroup(Include) ==
  Obj("$ReleaseGroup",
      Extend(ReleaseGroupBase.f \cup WithAnnotation.f \cup WithRels(Include).f,
             { Fld("artist-credit",
                   {SubQuery({Arr({Ref("ArtistCredit")})},
                             {"artists", "artist-credits"})}),
               Fld("releases",
                   {SubQuery({Arr({Ref("MinimalRelease")})}, {"releases"})}) }))

S_Series(Include) ==
  Obj("$Series", MinimalSeries.f \cup WithAnnotation.f \cup WithRels(Include).f)

S_Work(Include) ==
  Obj("$Work", MinimalWork.f \cup WithAnnotation.f \cup WithRels(Include).f)

\* The declarations of the object types that other types refer to by name.
\* A bare `$Url` is $Url<IncludeParameter>, that is $Url<string>.
Schema(name) ==
  CASE name = "MinimalArea" -> MinimalArea
    [] name = "MinimalArtist" -> MinimalArtist
    [] name = "MinimalEvent" -> MinimalEvent
    [] name = "MinimalInstrument" -> MinimalInstrument
    [] name = "MinimalLabel" -> MinimalLabel
    [] name = "MinimalPlace" -> MinimalPlace
    [] name = "MinimalRecording" -> MinimalRecording
    [] name = "MinimalRecordingWithRels" -> MinimalRecordingWithRels
    [] name = "MinimalRelease" -> MinimalRelease
    [] name = "MinimalReleaseForRecording" -> MinimalReleaseForRecording
    [] name = "MinimalReleaseGroup" -> MinimalReleaseGroup
    [] name = "MinimalReleaseGroupWithRels" -> MinimalReleaseGroupWithRels
    [] name = "MinimalSeries" -> MinimalSeries
    [] name = "MinimalWork" -> MinimalWork
    [] name = "ArtistCredit" -> ArtistCredit
    [] name = "LabelInfo" -> LabelInfo
    [] name = "ReleaseEvent" -> ReleaseEvent
    [] name = "MinimalMedium" -> MinimalMedium
    [] name = "MinimalMediumWithTracks" -> MinimalMediumWithTracks
    [] name = "MinimalTrack" -> MinimalTrack
    [] name = "Alias" -> Alias
    [] name = "Medium" -> Medium(Ref("MinimalRecordingWithRels"))
    [] name = "Track" -> Track(Ref("MinimalRecordingWithRels"))
    [] name = "$Url" -> S_Url({AnyString})
    [] OTHER -> CHOOSE R \in Relationship(RelatableEntityType) : R.n = name

RECURSIVE Deref(_)

\* The type an atom denotes: a reference denotes the declaration it names, an
\* array the array of what its items denote.
Deref(a) ==
  IF a.k = "ref" THEN Schema(a.n)
  ELSE IF a.k = "arr" THEN Arr({ Deref(x) : x \in a.t })
  ELSE a

(***************************************************************************)
(* Part I.d  Include-driven projection (api_includes.ts)                   *)
(***************************************************************************)

\* Entity[Key]: the type of an optional property includes `undefined`.
PropType(p) == IF p.opt THEN p.ty \cup {Undefined} ELSE p.ty

\* Exclude<T, undefined>
ExcludeUndefined(ty) == ty \ {Undefined}

\* Exclude<Entity[Key], undefined> extends $SubQuery<infer Data, infer RequiredInclude>
IsSubQuery(ty) ==
  /\ ExcludeUndefined(ty) # {}
  /\ \A a \in ExcludeUndefined(ty) : a.k = "sub"

\* `infer Data`: the union of the candidates of all members.
InferData(ty) == UNION { a.t : a \in ExcludeUndefined(ty) }

\* `infer RequiredInclude`: the union of the candidates of all members.
InferRequiredInclude(ty) == UNION { a.inc : a \in ExcludeUndefined(ty) }

\* Variant of Extends: only a literal member of Include activates R, the
\* include type `string` activates nothing.
Extends_LiteralOnly(R, Include) == R \in Include

\* `R extends Include` for one member R of RequiredInclude: a string literal is
\* assignable to a union of literals that contains it, and to `string`.
Extends(R, Include) == R \in Include \/ AnyString \in Include

\* ActivatedInclude<RequiredInclude, Include> of api_types.test.ts: the
\* conditional type distributes over the members of RequiredInclude; the result
\* is the union of the branch results (`boolean` is {TRUE, FALSE}).
ActivatedInclude(RequiredInclude, Include) ==
  { Extends(R, Include) : R \in RequiredInclude }

\* Variant of AvailableKeys: RequiredInclude is tested as a whole (the
\* non-distributive `[RequiredInclude] extends [Include]`), so a sub-query with
\* alternative includes needs all of them.
AvailableKeys_NonDistributive(Entity, Include) ==
  { p.key : p \in { q \in Entity.f :
      IsSubQuery(PropType(q)) =>
        \/ AnyString \in Include
        \/ InferRequiredInclude(PropType(q)) \subseteq Include } }

\* Variant of AvailableKeys: the operands of the include test are swapped
\* (`Include extends RequiredInclude`).
AvailableKeys_Swapped(Entity, Include) ==
  { p.key : p \in { q \in Entity.f :
      IsSubQuery(PropType(q)) =>
        /\ Include # {}
        /\ Include \subseteq InferRequiredInclude(PropType(q)) } }

\* Keys of all properties which are included in Entity for the given includes.
\* The inner conditional type distributes over the members of RequiredInclude
\* and the results (Key or never) are united.
AvailableKeys(Entity, Include) ==
  UNION { IF IsSubQuery(PropType(p))
            THEN UNION { IF Extends(r, Include) THEN {p.key} ELSE {}
                         : r \in InferRequiredInclude(PropType(p)) }
            ELSE {p.key}
          : p \in Entity.f }

\* Pick<T, K>
Pick(T, K) == { p \in T : p.key \in K }

RECURSIVE WithIncludes(_, _)
RECURSIVE UnwrapData(_, _)

\* Variant of UnwrapProperties: the data of an included sub-query is returned
\* as it is, without unwrapping the sub-queries nested in it.
UnwrapProperties_PayloadAsIs(Entity, Include) ==
  { [ key |-> p.key,
      opt |-> p.opt,
      ty |-> LET unwrapped ==
                   IF IsSubQuery(PropType(p))
                     THEN UNION { IF Extends(r, Include)
                                    THEN InferData(PropType(p))
                                    ELSE {}
                                  : r \in InferRequiredInclude(PropType(p)) }
                     ELSE UnwrapData(PropType(p), Include)
             IN  IF p.opt THEN ExcludeUndefined(unwrapped) ELSE unwrapped ]
    : p \in Entity.f }

\* Unwraps the data of all sub-query properties whose required include is
\* given and replaces the other sub-queries by `never`.
UnwrapProperties(Entity, Include) ==
  { [ key |-> p.key,
      opt |-> p.opt,
      ty |-> LET unwrapped ==
                   IF IsSubQuery(PropType(p))
                     THEN UNION { IF Extends(r, Include)
                                    THEN UnwrapData(InferData(PropType(p)), Include)
                                    ELSE {}
                                  : r \in InferRequiredInclude(PropType(p)) }
                     ELSE UnwrapData(PropType(p), Include)
             IN  IF p.opt THEN ExcludeUndefined(unwrapped) ELSE unwrapped ]
    : p \in Entity.f }

\* Variant of UnwrapMember: nested objects and array items are left as they
\* are, only the top level of an entity is projected.
UnwrapMember_Shallow(a, Include) ==
  IF a = EmptyTuple \/ (a.k = "arr" /\ a.t = {}) THEN {EmptyTuple} ELSE {a}

\* UnwrapData for one member of the union Data.
UnwrapMember(a, Include) ==
  IF a = EmptyTuple \/ (a.k = "arr" /\ a.t = {})
    THEN {EmptyTuple}
  ELSE IF a.k = "arr"
    THEN IF \A x \in a.t : x.k = "prim" /\ x.n \in StringOrNumberPrims
           THEN {a}
           ELSE { IF x.k = "obj" THEN Arr({WithIncludes(x, Include)}) ELSE Arr({x})
                  : x \in a.t }
  ELSE IF a.k = "obj"
    THEN {WithIncludes(a, Include)}
  ELSE {a}

\* Applies the sub-query data unwrapping for all objects from the given data;
\* distributes over the members of Data.
UnwrapData(Data, Include) ==
  UNION { UnwrapMember(Deref(a), Include) : a \in Data }

\* Entity with additional information for the given include parameters.
WithIncludes(Entity, Include) ==
  Obj(Entity.n, Pick(UnwrapProperties(Entity, Include), AvailableKeys(Entity, Include)))

\* keyof of a union of object types: the keys that all members have.
KeyOf(Entity) ==
  IF Entity = {} THEN {}
  ELSE { key \in UNION { { p.key : p \in E.f } : E \in Entity } :
           \A E \in Entity : \E p \in E.f : p.key = key }

\* keyof T extends string ? keyof T : never
StringKeyOf(Entity) ==
  IF "[string]" \in KeyOf(Entity) THEN {} ELSE KeyOf(Entity)

RECURSIVE CollectIncludes(_)

\* Variant of CollectSubQueryIncludes: the items of arrays are not visited.
CollectSubQueryIncludes_ObjectsOnly(Data) ==
  UNION { IF a.k = "obj" THEN CollectIncludes({a}) ELSE {}
          : a \in { Deref(x) : x \in Data } }

\* Collects sub-query include parameters from all objects of the given data;
\* distributes over the members of Data.
CollectSubQueryIncludes(Data) ==
  UNION { IF a.k = "arr" /\ (\A x \in a.t : x.k = "obj")
            THEN CollectIncludes(a.t)
          ELSE IF a.k = "obj"
            THEN CollectIncludes({a})
          ELSE {}
          : a \in { Deref(x) : x \in Data } }

\* All possible include parameter values for the given Entity (a union of
\* object types).  The mapped type distributes over the members of Entity and
\* is then indexed by the string keys of Entity.
CollectIncludes(Entity) ==
  UNION { UNION { LET p == CHOOSE q \in E.f : q.key = key
                  IN  IF IsSubQuery(PropType(p))
                        THEN InferRequiredInclude(PropType(p))
                               \cup CollectSubQueryIncludes(InferData(PropType(p)))
                        ELSE CollectSubQueryIncludes(PropType(p))
                  : E \in Entity }
          : key \in StringKeyOf(Entity) }


(***************************************************************************)
(* Part I.e  Include maps and entity types per lookup (api_types.ts)       *)
(***************************************************************************)

\* The schema $T<Include> of an entity type, as a union of object types.
EntitySchema(T, Include) ==
  CASE T = "area" -> {S_Area(Include)}
    [] T = "artist" -> {S_Artist(Include)}
    [] T = "collection" -> MinimalCollection(CollectableEntityType)
    [] T = "event" -> {S_Event(Include)}
    [] T = "genre" -> {S_Genre}
    [] T = "instrument" -> {S_Instrument(Include)}
    [] T = "label" -> {S_Label(Include)}
    [] T = "place" -> {S_Place(Include)}
    [] T = "recording" -> {S_Recording(Include)}
    [] T = "release" -> {S_Release(Include)}
    [] T = "release-group" -> {S_ReleaseGroup(Include)}
    [] T = "series" -> {S_Series(Include)}
    [] T = "work" -> {S_Work(Include)}
    [] T = "url" -> {S_Url(Include)}

\* Maps entity type names to their possible include parameter values:
\* AreaInclude = CollectIncludes<$Area>, ..., UrlInclude = CollectIncludes<$Url>
\* with the default include parameter `string` of the schema, and
\* ArtistInclude = CollectIncludes<$Artist> | "various-artists".
EntityIncludeMap(T) ==
  CollectIncludes(EntitySchema(T, {AnyString}))
    \cup (IF T = "artist" THEN {"various-artists"} ELSE {})

\* All possible include parameter values for all entity types.
AnyInclude == UNION { EntityIncludeMap(T) : T \in EntityType }

\* Area<Include>, ..., Url<Include>: WithIncludes<$T<Include>, Include>.
\* Collection and Genre do not support include parameters.
Entity(T, Include) ==
  IF T \in {"collection", "genre"}
    THEN EntitySchema(T, Include)
    ELSE { WithIncludes(E, Include) : E \in EntitySchema(T, Include) }

\* Variant of SupportedInclude: all include parameters are passed on.
SupportedInclude_Unfiltered(Include, TInclude) == Include

\* `Include extends TInclude ? Include : never`, distributed over Include.
SupportedInclude(Include, TInclude) == { i \in Include : Extends(i, TInclude) }

\* EntityTypeMap<Include>[T]: accepts any include parameters, but only passes
\* the supported include parameters to each entity type.
EntityTypeMap(Include, T) ==
  Entity(T, SupportedInclude(Include, EntityIncludeMap(T)))

\* Names of the schemas of nested entities and of their parts.
NestedSchemas ==
  { "MinimalArea", "MinimalArtist", "MinimalEvent", "MinimalInstrument",
    "MinimalLabel", "MinimalPlace", "MinimalRecording",
    "MinimalRecordingWithRels", "MinimalRelease", "MinimalReleaseForRecording",
    "MinimalReleaseGroup", "MinimalReleaseGroupWithRels", "MinimalSeries",
    "MinimalWork", "ArtistCredit", "LabelInfo", "ReleaseEvent",
    "MinimalMedium", "MinimalMediumWithTracks", "Medium", "MinimalTrack",
    "Track", "Alias" }
  \cup { "Relationship<" \o T \o ">" : T \in RelatableEntityType }


(***************************************************************************)
(* Part I.f  The projection as a state machine                             *)
(***************************************************************************)

VARIABLES
  op,         \* the operation applied last
  entity,     \* entity type of a lookup, or name of a projected nested schema
  requestable,\* the include parameters a request for `entity` is drawn from
  include,    \* the requested include parameters
  doc,        \* the projected document type (a union of object types)
  collected,  \* the result of the last include collection
  required,   \* RequiredInclude of the last ActivatedInclude test
  activated   \* result of the last ActivatedInclude test

projVars ==
  << op, entity, requestable, include, doc, collected, required, activated >>

\* The request queue of the client (Part II).  Times are counted in ticks.
VARIABLES
  now,             \* Date.now()
  maxQueueSize,    \* #maxQueueSize
  queuedRequests,  \* #queuedRequests
  rateLimitDelay,  \* #rateLimitDelay: the time at which the promise resolves
  pc,              \* position of each caller in its call
  awaited,         \* the promise each caller awaits (its time of resolution)
  call,            \* the call made last: its method and its identifier
  settled,         \* the response processed last and what get made of it
  processed,       \* the empty set, or the set of the rate limit headers of
                   \* the response processed by the last step
  fetches,         \* number of network calls started for each caller's call
  startedAt,       \* time at which each caller started its network call
  quotaReset,      \* latest future reset time of a processed response with
                   \* no remaining units (history)
  waitUntil,       \* quotaReset at the time each caller entered #request
  noQuotaUntil,    \* one second after the latest processed response without
                   \* a remaining-quota header (history)
  gapUntil,        \* noQuotaUntil at the time each caller entered #request
  quotaHeaders     \* some processed response had a remaining-quota header

clientVars ==
  << now, maxQueueSize, queuedRequests, rateLimitDelay, pc, awaited, call,
     settled, processed, fetches, startedAt, quotaReset, waitUntil,
     noQuotaUntil, gapUntil, quotaHeaders >>

\* The state of a call of one of the utility functions (utils/track.ts,
\* utils/artist.ts): its arguments and, once it has returned, its result.
VARIABLES
  utilIn,     \* the function called and its arguments
  utilOut     \* the empty set, or the set of the value returned

utilVars == << utilIn, utilOut >>

\* All variables.
vars == << projVars, clientVars, utilVars >>

\* No utility function is called.
UtilsAtRest ==
  /\ utilIn = [fn |-> ""]
  /\ utilOut = {}

\* Largest number of include parameters of one request.
MaxIncludes == 2

\* Include parameters that are foreign to some entity types.
ForeignIncludes == {"aliases", "various-artists", "media"}

\* Include parameters of the ActivatedInclude tests of api_types.test.ts.
TestIncludes == {"A", "B", "C", "X"}

\* The unprojected schema behind `entity`, for the given includes.
SchemaFor(e, Include) ==
  IF e \in EntityType THEN EntitySchema(e, Include) ELSE {Schema(e)}

\* Include parameters a request for `entity` is drawn from.
RequestableIncludes(e) ==
  CollectIncludes(SchemaFor(e, {AnyString})) \cup ForeignIncludes

\* The document type of `entity` for the requested includes: the result type of
\* a lookup, or WithIncludes of a nested schema.
Projected(e, Include) ==
  IF e \in EntityType
    THEN EntityTypeMap(Include, e)
    ELSE { WithIncludes(Schema(e), Include) }

\* Number of concurrent callers of one client.
NumCallers == 3

\* Last instant of the clock, in ticks.
MaxTime == 3

\* Resolution of the clock: ticks per second.
TicksPerSecond == 2

Callers == 1..NumCallers

\* options.maxQueueSize ?? Infinity
Infinity == NumCallers + 1

\* No call was made yet, no response was processed yet.
NoCall == [method |-> "", mbid |-> << >>]
NoError == [name |-> "", message |-> "", status |-> 0]
NoJson == [t |-> "undefined", s |-> ""]
NoBody == [t |-> "undefined", error |-> NoJson, id |-> NoJson]
NotSettled ==
  [status |-> 0, body |-> NoBody, outcome |-> "", data |-> NoBody,
   error |-> NoError]

\* The client before its first request, with the default options.
ClientAtRest ==
  /\ now = 0
  /\ maxQueueSize = Infinity
  /\ queuedRequests = 0
  /\ rateLimitDelay = 0
  /\ pc = [c \in Callers |-> "idle"]
  /\ awaited = [c \in Callers |-> 0]
  /\ call = NoCall
  /\ settled = NotSettled
  /\ processed = {}
  /\ fetches = [c \in Callers |-> 0]
  /\ startedAt = [c \in Callers |-> 0]
  /\ quotaReset = 0
  /\ waitUntil = [c \in Callers |-> 0]
  /\ noQuotaUntil = 0
  /\ gapUntil = [c \in Callers |-> 0]
  /\ quotaHeaders = FALSE

InitProjection ==
  /\ ClientAtRest
  /\ UtilsAtRest
  /\ op = "init"
  /\ entity = ""
  /\ requestable = {}
  /\ include = {}
  /\ doc = {}
  /\ collected = {}
  /\ required = {}
  /\ activated = {}

\* client.lookup(entityType, mbid) without include parameters: its result type.
Lookup(T) ==
  /\ op = "init"
  /\ op' = "lookup"
  /\ entity' = T
  /\ requestable' = RequestableIncludes(T)
  /\ include' = {}
  /\ doc' = Projected(T, {})
  /\ UNCHANGED << collected, required, activated >>
  /\ UNCHANGED << clientVars, utilVars >>

\* WithIncludes<Schema, never> of a nested schema.
Project(name) ==
  /\ op = "init"
  /\ op' = "project"
  /\ entity' = name
  /\ requestable' = RequestableIncludes(name)
  /\ include' = {}
  /\ doc' = Projected(name, {})
  /\ UNCHANGED << collected, required, activated >>
  /\ UNCHANGED << clientVars, utilVars >>

\* The same request with one more include parameter.
Include(p) ==
  /\ op \in {"lookup", "project", "include"}
  /\ Cardinality(include) < MaxIncludes
  /\ p \notin include
  /\ op' = "include"
  /\ include' = include \cup {p}
  /\ doc' = Projected(entity, include \cup {p})
  /\ UNCHANGED << entity, requestable, collected, required, activated >>
  /\ UNCHANGED << clientVars, utilVars >>

\* WithIncludes applied to the projected document once more.
Reproject ==
  /\ op \in {"lookup", "project", "include"}
  /\ op' = "reproject"
  /\ doc' = { WithIncludes(d, include) : d \in doc }
  /\ UNCHANGED << entity, requestable, include, collected, required,
                  activated >>
  /\ UNCHANGED << clientVars, utilVars >>

\* CollectIncludes<Schema> with the default include parameter of the schema.
Collect(name) ==
  /\ op = "init"
  /\ op' = "collect"
  /\ entity' = name
  /\ collected' = CollectIncludes(SchemaFor(name, {AnyString}))
  /\ include' = {}
  /\ doc' = {}
  /\ UNCHANGED << requestable, required, activated >>
  /\ UNCHANGED << clientVars, utilVars >>

\* WithIncludes<Schema, string>: all sub-queries are included.
ProjectAll(name) ==
  /\ op = "init"
  /\ op' = "all"
  /\ entity' = name
  /\ include' = {AnyString}
  /\ doc' = { WithIncludes(E, {AnyString}) : E \in SchemaFor(name, {AnyString}) }
  /\ UNCHANGED << requestable, collected, required, activated >>
  /\ UNCHANGED << clientVars, utilVars >>

\* WithIncludes<Schema, CollectIncludes<Schema>>
ProjectCollected(name) ==
  LET all == CollectIncludes(SchemaFor(name, {AnyString}))
  IN  /\ op = "init"
      /\ op' = "collected"
      /\ entity' = name
      /\ include' = all
      /\ doc' = { WithIncludes(E, all) : E \in SchemaFor(name, all) }
      /\ UNCHANGED << requestable, collected, required, activated >>
      /\ UNCHANGED << clientVars, utilVars >>

\* ActivatedInclude<RequiredInclude, Include> of the type tests.
Activate(RequiredInclude, Inc) ==
  /\ op = "init"
  /\ op' = "activate"
  /\ required' = RequiredInclude
  /\ include' = Inc
  /\ activated' = ActivatedInclude(RequiredInclude, Inc)
  /\ entity' = ""
  /\ doc' = {}
  /\ UNCHANGED << requestable, collected >>
  /\ UNCHANGED << clientVars, utilVars >>

NextProjection ==
  \/ \E T \in EntityType : Lookup(T)
  \/ \E name \in NestedSchemas : Project(name)
  \/ \E p \in requestable : Include(p)
  \/ Reproject
  \/ \E name \in EntityType \cup NestedSchemas : Collect(name)
  \/ \E name \in EntityType \cup NestedSchemas : ProjectAll(name)
  \/ \E name \in EntityType \cup NestedSchemas : ProjectCollected(name)
  \/ \E R \in SUBSET TestIncludes, I \in (SUBSET TestIncludes) \cup {{AnyString}} :
       Activate(R, I)

SpecProjection == InitProjection /\ [][NextProjection]_vars


(***************************************************************************)
(* Part I.g  Properties of the projection                                  *)
(***************************************************************************)

\* Keys of an object type.
Keys(o) == { p.key : p \in o.f }

\* A declared property is gated when its type is a sub-query; Gate is the set
\* of its required includes.
IsGated(p) == \E a \in p.ty : a.k = "sub"
Gate(p) == UNION { a.inc : a \in { b \in p.ty : b.k = "sub" } }

\* Keys of the always-present properties of a declared object type.
RegularKeys(E) == { p.key : p \in { q \in E.f : ~IsGated(q) } }

\* Keys of the gated properties of E with at least one required include in S.
GatedKeys(E, S) ==
  { p.key : p \in { q \in E.f : IsGated(q) /\ (Gate(q) \cap S) # {} } }

\* All declared object types of a schema: the schema itself, the payloads of its
\* sub-queries and its nested entities, at any depth.
RECURSIVE DeclaredIn(_)
DeclaredIn(ty) ==
  UNION { LET d == Deref(a)
          IN  IF d.k = "obj"
                THEN {d} \cup UNION { DeclaredIn(p.ty) : p \in d.f }
              ELSE IF d.k \in {"arr", "sub"}
                THEN DeclaredIn(d.t)
              ELSE {}
          : a \in ty }

\* The declaration of a projected object: the declared object type of its name.
DeclOf(o, decls) == CHOOSE E \in decls : E.n = o.n

\* The required includes of all sub-query properties of a schema, at any depth.
ReachableIncludes(ty) ==
  UNION { UNION { Gate(p) : p \in E.f } : E \in DeclaredIn(ty) }

\* All object types of a projected document, at any depth.
RECURSIVE ObjectsIn(_)
ObjectsIn(ty) ==
  UNION { IF a.k = "obj"
            THEN {a} \cup UNION { ObjectsIn(p.ty) : p \in a.f }
          ELSE IF a.k = "arr"
            THEN ObjectsIn(a.t)
          ELSE {}
          : a \in ty }

\* The fields of a projected document, each as the path of << object, key >>
\* pairs that leads to it.
RECURSIVE Paths(_)
Paths(ty) ==
  UNION { IF a.k = "obj"
            THEN UNION { { << << a.n, p.key >> >> }
                           \cup { << << a.n, p.key >> >> \o q : q \in Paths(p.ty) }
                         : p \in a.f }
          ELSE IF a.k = "arr"
            THEN Paths(a.t)
          ELSE {}
          : a \in ty }

\* The item types of the arrays of a property type.
Items(ty) == UNION { a.t : a \in { b \in ty : b.k = "arr" } }

\* The relationships of a projected document and the kinds of their targets.
RelationshipNames == { "Relationship<" \o T \o ">" : T \in RelatableEntityType }
RelationshipsIn(ty) == { o \in ObjectsIn(ty) : o.n \in RelationshipNames }

\* The relationships which are items of a `relations` property of a projected
\* document, at any depth.
RelationsItems(ty) ==
  UNION { UNION { { r \in Items(p.ty) : r.n \in RelationshipNames }
                  : p \in { q \in o.f : q.key = "relations" } }
          : o \in ObjectsIn(ty) }
TargetKinds(r) == { T \in RelatableEntityType : TargetKey(T) \in Keys(r) }

\* The document is the projection of `entity` for the finite set `include`.
IsProjection == op \in {"lookup", "project", "include"}

\* C1: the projection of a schema E for the include set S has exactly the
\* always-present properties of E and the gated properties with at least one
\* required include in S; a property gated by several alternative includes is
\* activated by any one of them, also next to unrelated includes, and by none
\* of them otherwise.
C1_ExactlyRegularAndActivatedKeys ==
  /\ IsProjection =>
       \A d \in doc :
         LET E == DeclOf(d, SchemaFor(entity, include))
         IN  Keys(d) = RegularKeys(E) \cup GatedKeys(E, include)
  /\ (op = "activate" /\ AnyString \notin include) =>
       ((TRUE \in activated) <=> (required \cap include) # {})

C1_Witness ==
  /\ op = "include"
  /\ entity = "recording"
  /\ include = {"artists", "tags"}
  /\ \A d \in doc : {"artist-credit", "tags"} \subseteq Keys(d)
  /\ \A d \in doc : "aliases" \notin Keys(d)

\* C2: the collected include set of a schema is the union of the required
\* includes of all sub-query properties reachable in it, nothing missing and
\* nothing extra.
C2_CollectedIsReachable ==
  op = "collect" =>
    collected = ReachableIncludes(SchemaFor(entity, {AnyString}))

\* C3: projecting a schema with all includes (the include type `string`, or
\* its complete collected include set) removes no property: the available keys
\* are all declared keys.
C3_AllIncludesRemoveNoKey ==
  op \in {"all", "collected"} =>
    /\ doc # {}
    /\ \A d \in doc : Keys(d) = Keys(DeclOf(d, SchemaFor(entity, include)))

C3_Witness ==
  /\ op = "collected"
  /\ entity = "release-group"
  /\ \A d \in doc : {"relations", "releases", "artist-credit"} \subseteq Keys(d)

\* C4: with the empty include set exactly the always-present properties are
\* kept, at the top level and in every nested entity.
C4_EmptyIncludeKeepsRegularOnly ==
  (op \in {"lookup", "project"}) =>
    /\ include = {}
    /\ LET decls == DeclaredIn(SchemaFor(entity, {}))
       IN  \A o \in ObjectsIn(doc) : Keys(o) = RegularKeys(DeclOf(o, decls))

C4_Witness ==
  /\ op = "lookup"
  /\ entity = "release"
  /\ \E o \in ObjectsIn(doc) : o.n = "text-representation"
  /\ \A d \in doc : "media" \notin Keys(d)

\* C5: projecting a projected document again with the same include set
\* changes nothing.
C5_Idempotent == [][op' = "reproject" => doc' = doc]_projVars

C5_Witness ==
  /\ op = "reproject"
  /\ entity = "release"
  /\ include = {"media", "recordings"}
  /\ \E o \in ObjectsIn(doc) : o.n = "Track" /\ "recording" \in Keys(o)

\* C6: adding an include parameter never removes a field that was present, at
\* the top level, in nested entities and in the items of relationships.
C6_Monotone ==
  [][op' = "include" => Paths(doc) \subseteq Paths(doc')]_projVars

C6_Witness ==
  /\ op = "include"
  /\ entity = "area"
  /\ include = {"area-rels", "aliases"}
  /\ \E r \in RelationshipsIn(doc) : "area" \in Keys(r)

\* C7: every relationship of a projected `relations` property carries exactly
\* one target-entity property, of a kind K whose include `K-rels` was requested.
C7_TargetKindWasRequested ==
  IsProjection =>
    \A r \in RelationsItems(doc) :
      /\ Cardinality(TargetKinds(r)) = 1
      /\ \A K \in TargetKinds(r) : RelsOf(K) \in include

C7_Witness ==
  /\ op = "include"
  /\ entity = "release"
  /\ include = {"recordings", "recording-level-rels"}
  /\ \E r \in RelationsItems(doc) : TargetKinds(r) = {"area"}

\* C8: the `relations` of an area projected with area-rels and url-rels are
\* exactly the relationships to an area or to a URL, each projected as with
\* the empty include set.
C8_MixedTargetsProjectedWithNoInclude ==
  (op = "include" /\ entity = "area" /\ include = {"area-rels", "url-rels"}) =>
    \A d \in doc : \A p \in d.f :
      p.key = "relations" =>
        Items(p.ty) = { WithIncludes(R, {}) : R \in Relationship({"area", "url"}) }

C8_Witness ==
  /\ op = "include"
  /\ entity = "area"
  /\ include = {"area-rels", "url-rels"}
  /\ \E r \in RelationshipsIn(doc) :
       \E o \in ObjectsIn({r}) : o.n = "$Url" /\ "relations" \in Keys(o)

CommonKeys(node) ==
  LET common == { key \in UNION { Keys(E) : E \in node } :
                    \A E \in node : key \in Keys(E) }
  IN  IF "[string]" \in common THEN {} ELSE common
CommonProps(node) ==
  UNION { { p \in E.f : p.key \in CommonKeys(node) } : E \in node }

\* The includes a schema contributes itself, and the schemas it leads to: the
\* objects, and the item unions of the arrays of objects, of the payloads of
\* its sub-queries and of its other properties.
OwnIncludes(node) == UNION { Gate(p) : p \in { q \in CommonProps(node) : IsGated(q) } }
Successors(node) ==
  UNION { LET payload == IF IsGated(p)
                           THEN UNION { a.t : a \in p.ty \ {Undefined} }
                           ELSE p.ty
          IN  UNION { LET d == Deref(a)
                      IN  IF d.k = "obj" THEN {{d}}
                          ELSE IF d.k = "arr" /\ \A x \in d.t : x.k = "obj"
                            THEN {d.t}
                          ELSE {}
                      : a \in payload }
          : p \in CommonProps(node) }

\* The schemas visited from the pending ones when every schema is visited
\* once.
RECURSIVE VisitOnce(_, _)
VisitOnce(pending, visited) ==
  IF pending = {}
    THEN visited
    ELSE LET node == CHOOSE n \in pending : TRUE
         IN  VisitOnce((pending \cup Successors(node)) \ (visited \cup {node}),
                       visited \cup {node})

\* The properties of the visited schemas which lead to a schema.
EdgesTo(node, visited) ==
  UNION { { << n, p.key >> :
            p \in { q \in CommonProps(n) :
                      \E a \in UNION { IF b.k = "sub" THEN b.t ELSE {b} : b \in q.ty } :
                        LET d == Deref(a)
                        IN  (d.k = "obj" /\ {d} = node) \/ (d.k = "arr" /\ d.t = node) } }
          : n \in visited }

\* C22: include collection ends for every schema, although entities refer to
\* each other in circles (a release has a release group, which has releases;
\* a recording has releases, which have recordings): no visited schema leads
\* back to itself; and the collected set is the set obtained when every
\* visited schema contributes its includes once.
C22_CollectionEndsAndCountsOnce ==
  op = "collect" =>
    LET visited == VisitOnce({SchemaFor(entity, {AnyString})}, {})
    IN  /\ collected = UNION { OwnIncludes(node) : node \in visited }
        /\ \A node \in visited : node \notin VisitOnce(Successors(node), {})

C22_Witness ==
  /\ op = "collect"
  /\ entity = "release"
  /\ {"release-groups", "releases", "recordings"} \subseteq collected
  /\ LET visited == VisitOnce({SchemaFor(entity, {AnyString})}, {})
     IN  /\ \E node \in visited :
               \E E \in node :
                 E.n = "MinimalReleaseGroupWithRels" /\ "releases" \in Keys(E)
         /\ \E node \in visited : Cardinality(EdgesTo(node, visited)) > 1

\* The payload a property is declared with: the data of its sub-queries, or
\* its type, without `undefined`.
DeclaredPayload(q) ==
  { Deref(a) :
      a \in UNION { IF b.k = "sub" THEN b.t ELSE {b} : b \in q.ty \ {Undefined} } }

\* Scalars and arrays of scalars (the empty array type never[] has no items).
ScalarsOnly(ty) ==
  \A a \in ty :
    \/ a.k = "prim"
    \/ (a.k = "arr" /\ a.t # {} /\ \A x \in a.t : x.k = "prim")

\* C23: projection recurses with the same include set: every object of the
\* projected document, nested in a kept sub-query payload or in an
\* always-present field (nullable or not), in an array or not, has exactly
\* its always-present properties and its gated properties with a required
\* include in the requested set (the includes of the request which the looked
\* up entity supports); a kept property declared with scalars or arrays of
\* scalars only has its declared type.
C23_NestedEntitiesProjectedWithSameSet ==
  IsProjection =>
    LET decls == DeclaredIn(SchemaFor(entity, include))
        requested == IF entity \in EntityType
                       THEN include \cap EntityIncludeMap(entity)
                       ELSE include
    IN  \A o \in ObjectsIn(doc) :
          LET E == DeclOf(o, decls)
          IN  /\ Keys(o) = RegularKeys(E) \cup GatedKeys(E, requested)
              /\ \A p \in o.f :
                   \A q \in { r \in E.f : r.key = p.key } :
                     ScalarsOnly(DeclaredPayload(q))
                       => p.ty = DeclaredPayload(q)

C23_Witness ==
  /\ op = "include"
  /\ entity = "artist"
  /\ include = {"aliases"}
  /\ \E d \in doc :
       \E p \in d.f :
         /\ p.key = "area"
         /\ Null \in p.ty
         /\ \E a \in p.ty : a.k = "obj" /\ "aliases" \in Keys(a)
  /\ \E d \in doc :
       \E p \in d.f : p.key = "aliases" /\ \E a \in p.ty : a.k = "arr"

\* C24: the available fields distribute over unions of requested includes:
\* for every declared schema of the entity and all include sets S1 and S2
\* whose union is the requested set, the fields kept with the union are those
\* kept with S1 together with those kept with S2, and these are the fields of
\* the projected document.
C24_AvailableKeysDistribute ==
  IsProjection =>
    \A S1, S2 \in SUBSET include :
      (S1 \cup S2 = include) =>
        /\ \A E \in DeclaredIn(SchemaFor(entity, include)) :
             AvailableKeys(E, include)
               = AvailableKeys(E, S1) \cup AvailableKeys(E, S2)
        /\ UNION { Keys(d) : d \in doc }
             = UNION { AvailableKeys(E, S1) \cup AvailableKeys(E, S2) :
                       E \in SchemaFor(entity, include) }

C24_Witness ==
  /\ op = "include"
  /\ entity = "recording"
  /\ include = {"artists", "isrcs"}
  /\ \A d \in doc : {"artist-credit", "isrcs"} \subseteq Keys(d)
  /\ \A E \in SchemaFor(entity, include) :
       /\ "artist-credit" \in AvailableKeys(E, {"artists"})
       /\ "isrcs" \notin AvailableKeys(E, {"artists"})
       /\ "isrcs" \in AvailableKeys(E, {"isrcs"})
       /\ "artist-credit" \notin AvailableKeys(E, {"isrcs"})

\* The projected release groups nested in the document.
NestedReleaseGroups ==
  { o \in ObjectsIn(doc) :
      o.n \in {"MinimalReleaseGroup", "MinimalReleaseGroupWithRels"} }

\* C25: a release group nested in another entity has the `artist-credit`
\* field when artist-credits or artists is requested; its payload is the list
\* of artist credits when artist-credits is requested, and null when only
\* artists is requested, not the union of both payloads.
C25_ArtistCreditPayloadFollowsInclude ==
  IsProjection =>
    \A o \in NestedReleaseGroups :
      LET credits == { p \in o.f : p.key = "artist-credit" }
      IN  /\ (credits # {}) <=> (include \cap {"artist-credits", "artists"}) # {}
          /\ \A p \in credits :
               IF "artist-credits" \in include
                 THEN \A a \in p.ty : a.k = "arr"
                 ELSE p.ty = {Null}

C25_Witness ==
  /\ op = "include"
  /\ entity = "release"
  /\ include = {"release-groups", "artists"}
  /\ \E o \in NestedReleaseGroups :
       \E p \in o.f :
         /\ p.key = "artist-credit"
         /\ Null \in p.ty
         /\ \E a \in p.ty : a.k = "arr"

(***************************************************************************)
(* Part II  The request dispatcher and rate limiter (client.ts)            *)
(*                                                                         *)
(* Time is counted in ticks, TicksPerSecond of them in a second.  A        *)
(* promise made by delay(ms) is modelled by the time at which it resolves, *)
(* the resolved promise by time 0.  A string whose characters matter is a  *)
(* sequence of characters.  The variables `call`, `settled` and `processed` *)
(* hold the call made, the result delivered and the headers processed by   *)
(* the step which led to the state.                                        *)
(***************************************************************************)

\* A header which is not present: response.headers.get() returns null.
NoHeader == -1

\* The rate limit headers of a response: X-RateLimit-Remaining is absent, zero
\* or positive; X-RateLimit-Reset is absent or a Unix time in seconds.
RateLimitHeaders ==
  { h \in [ remaining : {NoHeader, 0, 1},
            reset : {NoHeader} \cup (1..(MaxTime \div TicksPerSecond) + 1) ] :
      /\ h.remaining = NoHeader => h.reset = NoHeader
      /\ h.remaining = 1 => h.reset # NoHeader }

Max(a, b) == IF a >= b THEN a ELSE b

\* Date.now() in milliseconds.
DateNow == (now * 1000) \div TicksPerSecond

\* delay(ms): a promise which resolves ms after now.
Delay(ms) == now + ((ms * TicksPerSecond) \div 1000)

\* Variant of NextRateLimitDelay: the fallback of one second also applies
\* when units remain.
NextRateLimitDelay_FallbackWhenUnitsRemain(headers) ==
  IF headers.remaining = 0
    THEN IF headers.reset # NoHeader /\ headers.reset * 1000 - DateNow > 0
           THEN Delay(headers.reset * 1000 - DateNow)
           ELSE rateLimitDelay
    ELSE Delay(1000)

\* The deadline after the rate limit headers of a response were processed.
NextRateLimitDelay(headers) ==
  IF headers.remaining # NoHeader
    THEN IF headers.remaining = 0 /\ headers.reset # NoHeader
                                  /\ headers.reset * 1000 - DateNow > 0
           THEN Delay(headers.reset * 1000 - DateNow)
           ELSE rateLimitDelay
    ELSE Delay(1000)

\* The identifiers of the calls.
ValidMbid ==
  << "9", "4", "e", "d", "3", "1", "8", "a", "-", "f", "d", "7", "d", "-",
     "4", "a", "b", "c", "-", "8", "4", "9", "1", "-", "a", "3", "5", "e",
     "3", "9", "f", "5", "1", "d", "c", "a" >>

NotAUuid ==
  << "n", "o", "t", "-", "a", "-", "u", "u", "i", "d" >>

\* The identifiers passed to the calls; the last one is ValidMbid with one
\* character which is no hexadecimal digit.
Mbids == {ValidMbid, NotAUuid, [ValidMbid EXCEPT ![1] = "g"]}

\* Variant of Validate: only the length of the input is checked.
Validate_LengthOnly(input) == Len(input) = 36

\* validate of @std/uuid: the 8-4-4-4-12 pattern of hexadecimal digits,
\* in either case.
Validate(input) ==
  /\ Len(input) = 36
  /\ \A i \in 1..Len(input) :
       IF i \in {9, 14, 19, 24}
         THEN input[i] = "-"
         ELSE input[i] \in
                { "0", "1", "2", "3", "4", "5", "6", "7", "8", "9",
                  "a", "b", "c", "d", "e", "f", "A", "B", "C", "D", "E", "F" }

\* The methods which validate the identifier of the entity, and all methods.
IdMethods == {"lookup", "lookupCollectionContents"}
Methods == IdMethods \cup {"browseUrl", "get"}

\* The decoded bodies of the responses, as far as get looks at them: an error
\* response, an entity, an object whose `error` is no string, and a string.
Bodies ==
  { [t |-> "object", error |-> [t |-> "string", s |-> "Not Found"],
     id |-> NoJson],
    [t |-> "object", error |-> NoJson,
     id |-> [t |-> "string", s |-> "94ed318a"]],
    [t |-> "object", error |-> [t |-> "number", s |-> "404"], id |-> NoJson],
    [t |-> "string", error |-> NoJson, id |-> NoJson] }

\* The responses: the HTTP status code and the decoded body.
Responses ==
  { r \in [status : {200, 400, 404}, body : Bodies] :
      (r.status = 200) = ~(r.body.error.t = "string") }

\* isError of error.ts: the data is an object with a string `error`.
IsError(data) == data.t = "object" /\ data.error.t = "string"

\* new ApiError(message, status) of error.ts
ApiError(message, status) ==
  [name |-> "ApiError", message |-> message, status |-> status]

\* Variant of GetResult: the decoded body is returned whatever it is.
GetResult_ReturnsBody(status, data) ==
  [status |-> status, body |-> data, outcome |-> "returned", data |-> data,
   error |-> NoError]

\* get after the response arrived: an error response is thrown as ApiError,
\* other data is returned.
GetResult(status, data) ==
  IF IsError(data)
    THEN [status |-> status, body |-> data, outcome |-> "thrown",
          data |-> NoBody, error |-> ApiError(data.error.s, status)]
    ELSE [status |-> status, body |-> data, outcome |-> "returned",
          data |-> data, error |-> NoError]

\* No projection is in progress.
ProjectionAtRest ==
  /\ op = "init"
  /\ entity = ""
  /\ requestable = {}
  /\ include = {}
  /\ doc = {}
  /\ collected = {}
  /\ required = {}
  /\ activated = {}

InitClient ==
  /\ ProjectionAtRest
  /\ UtilsAtRest
  /\ now = 0
  /\ maxQueueSize \in (1..NumCallers - 1) \cup {Infinity}
  /\ queuedRequests = 0
  /\ rateLimitDelay = 0
  /\ pc = [c \in Callers |-> "idle"]
  /\ awaited = [c \in Callers |-> 0]
  /\ call = NoCall
  /\ settled = NotSettled
  /\ processed = {}
  /\ fetches = [c \in Callers |-> 0]
  /\ startedAt = [c \in Callers |-> 0]
  /\ quotaReset = 0
  /\ waitUntil = [c \in Callers |-> 0]
  /\ noQuotaUntil = 0
  /\ gapUntil = [c \in Callers |-> 0]
  /\ quotaHeaders = FALSE

\* Variant of Request: the queue is full only when the counter exceeds the
\* maximum queue size.
Request_OffByOne(c) ==
  /\ pc[c] = "idle"
  /\ IF queuedRequests > maxQueueSize
       THEN /\ pc' = [pc EXCEPT ![c] = "rejected"]
            /\ UNCHANGED << queuedRequests, awaited, waitUntil,
                            gapUntil >>
       ELSE /\ pc' = [pc EXCEPT ![c] = "waiting"]
            /\ queuedRequests' = queuedRequests + 1
            /\ awaited' = [awaited EXCEPT ![c] = rateLimitDelay]
            /\ waitUntil' = [waitUntil EXCEPT ![c] = quotaReset]
            /\ gapUntil' = [gapUntil EXCEPT ![c] = noQuotaUntil]
  /\ settled' = NotSettled
  /\ processed' = {}
  /\ UNCHANGED << now, maxQueueSize, rateLimitDelay, fetches, startedAt,
                  quotaReset, noQuotaUntil, quotaHeaders >>
  /\ UNCHANGED << projVars, utilVars >>

\* #request up to `await this.#rateLimitDelay`: the caller is rejected when the
\* queue is full, otherwise it is counted and awaits the current deadline.
Request(c) ==
  /\ pc[c] = "idle"
  /\ IF queuedRequests >= maxQueueSize
       THEN /\ pc' = [pc EXCEPT ![c] = "rejected"]
            /\ UNCHANGED << queuedRequests, awaited, waitUntil,
                            gapUntil >>
       ELSE /\ pc' = [pc EXCEPT ![c] = "waiting"]
            /\ queuedRequests' = queuedRequests + 1
            /\ awaited' = [awaited EXCEPT ![c] = rateLimitDelay]
            /\ waitUntil' = [waitUntil EXCEPT ![c] = quotaReset]
            /\ gapUntil' = [gapUntil EXCEPT ![c] = noQuotaUntil]
  /\ settled' = NotSettled
  /\ processed' = {}
  /\ UNCHANGED << now, maxQueueSize, rateLimitDelay, fetches, startedAt,
                  quotaReset, noQuotaUntil, quotaHeaders >>
  /\ UNCHANGED << projVars, utilVars >>

\* A call of lookup, lookupCollectionContents, browseUrl or get up to its
\* first suspension: lookup and lookupCollectionContents assert that the
\* identifier is an MBID and throw if it is not; then get enters #request.
Call(c, method, mbid) ==
  /\ pc[c] = "idle"
  /\ call' = [method |-> method, mbid |-> mbid]
  /\ IF method \in IdMethods /\ ~Validate(mbid)
       THEN /\ pc' = [pc EXCEPT ![c] = "invalid"]
            /\ settled' = NotSettled
            /\ processed' = {}
            /\ UNCHANGED << now, maxQueueSize, queuedRequests, rateLimitDelay,
                            awaited, fetches, startedAt,
                            quotaReset, waitUntil, noQuotaUntil, gapUntil,
                            quotaHeaders >>
            /\ UNCHANGED << projVars, utilVars >>
       ELSE Request(c)

\* The awaited promise has resolved: the caller starts its network call.
StartFetch(c) ==
  /\ pc[c] = "waiting"
  /\ now >= awaited[c]
  /\ pc' = [pc EXCEPT ![c] = "fetching"]
  /\ startedAt' = [startedAt EXCEPT ![c] = now]
  /\ fetches' = [fetches EXCEPT ![c] = fetches[c] + 1]
  /\ call' = NoCall
  /\ settled' = NotSettled
  /\ processed' = {}
  /\ UNCHANGED << now, maxQueueSize, queuedRequests, rateLimitDelay, awaited,
                  quotaReset, waitUntil, noQuotaUntil, gapUntil,
                  quotaHeaders >>
  /\ UNCHANGED << projVars, utilVars >>

\* Variant of Respond: an error body is classified before the counter and
\* the rate limit headers are looked at.
Respond_ErrorBeforeHeaders(c, headers, status, body) ==
  /\ pc[c] = "fetching"
  /\ queuedRequests' = IF IsError(body)
                         THEN queuedRequests
                         ELSE queuedRequests - 1
  /\ rateLimitDelay' = IF IsError(body)
                         THEN rateLimitDelay
                         ELSE NextRateLimitDelay(headers)
  /\ settled' = GetResult(status, body)
  /\ processed' = {headers}
  /\ pc' = [pc EXCEPT ![c] = IF settled'.outcome = "thrown"
                                THEN "apiError" ELSE "done"]
  /\ quotaReset' = IF headers.remaining = 0 /\ headers.reset # NoHeader
                                            /\ headers.reset * 1000 > DateNow
                     THEN Max(quotaReset, headers.reset * TicksPerSecond)
                     ELSE quotaReset
  /\ noQuotaUntil' = IF headers.remaining = NoHeader
                       THEN Max(noQuotaUntil, now + TicksPerSecond)
                       ELSE noQuotaUntil
  /\ quotaHeaders' = (quotaHeaders \/ headers.remaining # NoHeader)
  /\ call' = NoCall
  /\ UNCHANGED << now, maxQueueSize, awaited, fetches, startedAt,
                  waitUntil, gapUntil >>
  /\ UNCHANGED << projVars, utilVars >>

\* fetch resolves with a response: the caller is no longer counted, the rate
\* limit headers of the response set the next deadline, and get throws the
\* decoded body as ApiError or returns it.
Respond(c, headers, status, body) ==
  /\ pc[c] = "fetching"
  /\ queuedRequests' = queuedRequests - 1
  /\ rateLimitDelay' = NextRateLimitDelay(headers)
  /\ settled' = GetResult(status, body)
  /\ processed' = {headers}
  /\ pc' = [pc EXCEPT ![c] = IF settled'.outcome = "thrown"
                                THEN "apiError" ELSE "done"]
  /\ quotaReset' = IF headers.remaining = 0 /\ headers.reset # NoHeader
                                            /\ headers.reset * 1000 > DateNow
                     THEN Max(quotaReset, headers.reset * TicksPerSecond)
                     ELSE quotaReset
  /\ noQuotaUntil' = IF headers.remaining = NoHeader
                       THEN Max(noQuotaUntil, now + TicksPerSecond)
                       ELSE noQuotaUntil
  /\ quotaHeaders' = (quotaHeaders \/ headers.remaining # NoHeader)
  /\ call' = NoCall
  /\ UNCHANGED << now, maxQueueSize, awaited, fetches, startedAt,
                  waitUntil, gapUntil >>
  /\ UNCHANGED << projVars, utilVars >>

\* Variant of FetchFail: the request is queued again after a failure.
FetchFail_Retry(c) ==
  /\ pc[c] = "fetching"
  /\ pc' = [pc EXCEPT ![c] = "waiting"]
  /\ call' = NoCall
  /\ settled' = NotSettled
  /\ processed' = {}
  /\ UNCHANGED << now, maxQueueSize, queuedRequests, rateLimitDelay, awaited,
                  fetches, startedAt, quotaReset, waitUntil,
                  noQuotaUntil, gapUntil, quotaHeaders >>
  /\ UNCHANGED << projVars, utilVars >>

\* fetch rejects (transport failure): the exception leaves #request before the
\* counter is decremented.
FetchFail(c) ==
  /\ pc[c] = "fetching"
  /\ pc' = [pc EXCEPT ![c] = "failed"]
  /\ call' = NoCall
  /\ settled' = NotSettled
  /\ processed' = {}
  /\ UNCHANGED << now, maxQueueSize, queuedRequests, rateLimitDelay, awaited,
                  fetches, startedAt, quotaReset, waitUntil,
                  noQuotaUntil, gapUntil, quotaHeaders >>
  /\ UNCHANGED << projVars, utilVars >>

\* One tick passes.  A caller whose awaited promise has resolved continues
\* before the clock advances.
Tick ==
  /\ now < MaxTime
  /\ \A c \in Callers : pc[c] = "waiting" => awaited[c] > now
  /\ now' = now + 1
  /\ call' = NoCall
  /\ settled' = NotSettled
  /\ processed' = {}
  /\ UNCHANGED << maxQueueSize, queuedRequests, rateLimitDelay, pc, awaited,
                  fetches, startedAt, quotaReset, waitUntil,
                  noQuotaUntil, gapUntil, quotaHeaders >>
  /\ UNCHANGED << projVars, utilVars >>

NextClient ==
  \/ \E c \in Callers, method \in Methods :
       \E mbid \in (IF method \in IdMethods THEN Mbids ELSE {<< >>}) :
         Call(c, method, mbid)
  \/ \E c \in Callers : StartFetch(c)
  \/ \E c \in Callers : \E headers \in RateLimitHeaders :
       \E r \in Responses : Respond(c, headers, r.status, r.body)
  \/ \E c \in Callers : FetchFail(c)
  \/ Tick

SpecClient == InitClient /\ [][NextClient]_vars

\* The callers whose network call has started.
Started == { c \in Callers : fetches[c] > 0 }

\* C10: once a response with no remaining units and a reset time T in the
\* future was processed, no request submitted afterwards starts its network
\* call before T, whatever other responses are processed in between.
C10_NoStartBeforeQuotaReset ==
  \A c \in Started : startedAt[c] >= waitUntil[c]

C10_Witness ==
  \E c \in Started :
    /\ pc[c] = "done"
    /\ startedAt[c] < waitUntil[c]

\* C11: once a response without a remaining-quota header was processed at time
\* t, no request submitted afterwards starts its network call before t plus
\* one second, whatever other responses are processed in between.
C11_NoStartWithinSecondAfterNoQuota ==
  \A c \in Started : startedAt[c] >= gapUntil[c]

C11_Witness ==
  \E c \in Started :
    /\ pc[c] = "done"
    /\ startedAt[c] < gapUntil[c]

\* The callers whose request is queued or in flight.
InQueue == { c \in Callers : pc[c] \in {"waiting", "fetching"} }

\* C12: a caller that arrives (with a valid call) while maxQueueSize requests
\* are queued or in flight is rejected in the same step, without waiting and
\* without a network call; the counter, the deadline and the earlier callers
\* are left as they were.
C12_RejectedAtOnceWhenQueueFull ==
  [][\A c \in Callers :
       ( /\ pc[c] = "idle"
         /\ pc'[c] \notin {"idle", "invalid"}
         /\ Cardinality(InQueue) = maxQueueSize )
       => /\ pc'[c] = "rejected"
          /\ now' = now
          /\ fetches'[c] = 0
          /\ queuedRequests' = queuedRequests
          /\ rateLimitDelay' = rateLimitDelay
          /\ \A d \in Callers \ {c} :
               /\ pc'[d] = pc[d]
               /\ awaited'[d] = awaited[d]
               /\ fetches'[d] = fetches[d]]_vars

C12_Witness ==
  /\ maxQueueSize = 2
  /\ \E c \in Callers :
       /\ pc[c] = "rejected"
       /\ fetches[c] = 0
       /\ \A d \in Callers \ {c} : pc[d] = "fetching" /\ fetches[d] = 1

\* A UUID-shaped string: 36 characters in five groups of 8, 4, 4, 4 and 12
\* hexadecimal digits, separated by hyphens.
UuidShaped(str) ==
  /\ Len(str) = 36
  /\ { i \in 1..Len(str) : str[i] = "-" } = {9, 14, 19, 24}
  /\ \A i \in (1..Len(str)) \ {9, 14, 19, 24} :
       \/ str[i] \in { "0", "1", "2", "3", "4", "5", "6", "7", "8", "9" }
       \/ str[i] \in { "a", "b", "c", "d", "e", "f" }
       \/ str[i] \in { "A", "B", "C", "D", "E", "F" }

\* C13: a call of lookup or lookupCollectionContents with an identifier which
\* is not UUID-shaped fails in the step of the call, with no network call and
\* with the counter and the deadline unchanged; a call with a UUID-shaped
\* identifier passes validation, and is queued for its network call when the
\* queue is not full.
C13_InvalidMbidFailsBeforeRequest ==
  [][\A c \in Callers :
       (pc[c] = "idle" /\ pc'[c] # "idle" /\ call'.method \in IdMethods)
       => IF UuidShaped(call'.mbid)
            THEN /\ pc'[c] \in {"waiting", "rejected"}
                 /\ queuedRequests < maxQueueSize
                      => /\ pc'[c] = "waiting"
                         /\ queuedRequests' = queuedRequests + 1
            ELSE /\ pc'[c] = "invalid"
                 /\ now' = now
                 /\ fetches' = fetches
                 /\ fetches'[c] = 0
                 /\ queuedRequests' = queuedRequests
                 /\ rateLimitDelay' = rateLimitDelay
                 /\ awaited' = awaited]_vars

C13_Witness ==
  /\ call.method = "lookup"
  /\ call.mbid = NotAUuid
  /\ \E c \in Callers :
       /\ pc[c] = "invalid"
       /\ fetches[c] = 0
       /\ \E d \in Callers \ {c} : pc[d] = "fetching"

\* C14: when the decoded body of a response is an object with a string
\* `error`, the call fails with an API error which carries the HTTP status of
\* the response and the message of the server, and no data is returned; every
\* other decoded body is returned unchanged.
C14_ErrorBodyIsThrownAsApiError ==
  settled # NotSettled
    => IF settled.body.t = "object" /\ settled.body.error.t = "string"
         THEN /\ settled.outcome = "thrown"
              /\ settled.error.name = "ApiError"
              /\ settled.error.status = settled.status
              /\ settled.error.message = settled.body.error.s
              /\ settled.data = NoBody
         ELSE /\ settled.outcome = "returned"
              /\ settled.data = settled.body
              /\ settled.error = NoError

C14_Witness ==
  /\ settled.status = 404
  /\ settled.body.error = [t |-> "string", s |-> "Not Found"]
  /\ settled.outcome = "thrown"
  /\ settled.error = [name |-> "ApiError", message |-> "Not Found",
                      status |-> 404]
  /\ \E c \in Callers : pc[c] = "apiError"

\* C15: every call issues at most one network request: exactly one once it was
\* admitted with a valid identifier and has left the queue, and none when it
\* was rejected; a call which ended with an API error, a transport failure or
\* a rejection issues no further request.
C15_AtMostOneFetchPerCall ==
  \A c \in Callers :
    /\ fetches[c] <= 1
    /\ pc[c] \in {"fetching", "done", "apiError", "failed"} => fetches[c] = 1
    /\ pc[c] \in {"idle", "waiting", "rejected", "invalid"} => fetches[c] = 0

C15_Witness ==
  \E c, d, e \in Callers :
    /\ pc[c] = "apiError" /\ fetches[c] = 1
    /\ pc[d] = "failed" /\ fetches[d] = 1
    /\ pc[e] = "rejected" /\ fetches[e] = 0
    /\ now > startedAt[c]
    /\ now > startedAt[d]

\* C20: as long as no response carried quota headers, any two network calls of
\* the client start at least one second apart, so callers awaiting the same
\* deadline are not released together.
C20_OneRequestPerSecond ==
  ~quotaHeaders
    => \A c, d \in Started :
         c # d => \/ startedAt[c] - startedAt[d] >= TicksPerSecond
                  \/ startedAt[d] - startedAt[c] >= TicksPerSecond

C20_Witness ==
  /\ ~quotaHeaders
  /\ \E c, d \in Started :
       /\ c # d
       /\ awaited[c] = awaited[d]
       /\ startedAt[c] = startedAt[d]
       /\ pc[c] = "done"
       /\ pc[d] = "done"

\* C21: a caller which is waiting when a response moves the deadline to a
\* later reset time T does not start its network call before T: the wait
\* target of every waiting caller is no earlier than the latest reset time of
\* the processed responses, unless that time has passed.
C21_WaitingCallerCoversLatestReset ==
  \A c \in Callers :
    pc[c] = "waiting" => (awaited[c] >= quotaReset \/ now >= quotaReset)

C21_Witness ==
  \E c \in Callers :
    /\ pc[c] = "waiting"
    /\ now < awaited[c]
    /\ awaited[c] < quotaReset
    /\ waitUntil[c] < quotaReset
    /\ rateLimitDelay = quotaReset

\* C26: in every reachable state the counter of queued requests is at least 0
\* and at most the maximum queue size, and counts every caller which is
\* queued or in flight; a caller is admitted and counted in one step.
C26_CounterWithinQueueSize ==
  /\ queuedRequests >= 0
  /\ queuedRequests <= maxQueueSize
  /\ Cardinality(InQueue) <= queuedRequests

C26_Witness ==
  /\ maxQueueSize = 2
  /\ queuedRequests = maxQueueSize
  /\ Cardinality(InQueue) = 2
  /\ \E c \in Callers : pc[c] = "rejected"

\* C27: every admitted request gives its slot back when its network call
\* ends, with data, with an error body or with a transport failure: when no
\* request is queued or in flight the counter is 0.
C27_SlotGivenBackWhenCallEnds ==
  InQueue = {} => queuedRequests = 0

C27_Witness ==
  /\ InQueue = {}
  /\ maxQueueSize = 1
  /\ queuedRequests = 1
  /\ \E c, d \in Callers :
       /\ pc[c] = "failed"
       /\ pc[d] = "rejected"
       /\ \A e \in Callers \ {c, d} : pc[e] = "idle"

\* C28: the deadline never moves to an earlier time: while the latest deadline
\* set by a processed response is pending, the deadline of the client is not
\* earlier.
C28_DeadlineNeverMovesEarlier ==
  \A deadline \in {quotaReset, noQuotaUntil} :
    deadline > now => rateLimitDelay >= deadline

C28_Witness ==
  /\ processed = {[remaining |-> NoHeader, reset |-> NoHeader]}
  /\ quotaReset > now + TicksPerSecond
  /\ rateLimitDelay = now + TicksPerSecond

\* C29: the deadline changes only in a step which processes a response
\* without remaining-quota header, or with no remaining units and a reset time
\* in the future; a response with remaining units, or with no remaining units
\* and no reset time or one which is not in the future, leaves it unchanged.
C29_DeadlineChangesOnlyOnQuotaEvents ==
  [][rateLimitDelay' # rateLimitDelay
       => \E h \in processed' :
            \/ h.remaining = NoHeader
            \/ /\ h.remaining = 0
               /\ h.reset # NoHeader
               /\ h.reset * TicksPerSecond > now]_vars

C29_Witness ==
  /\ processed = {[remaining |-> 0, reset |-> 1]}
  /\ now = TicksPerSecond
  /\ rateLimitDelay > now
  /\ noQuotaUntil = rateLimitDelay

\* C30: the rate limit headers of a response are processed and its slot is
\* given back whatever its body is: a response which ends in an API error
\* changes the deadline and the counter as the headers alone determine.
C30_HeadersProcessedBeforeBody ==
  [][\A h \in processed' :
       /\ settled'.outcome \in {"thrown", "returned"}
       /\ queuedRequests' = queuedRequests - 1
       /\ rateLimitDelay' =
            IF h.remaining = NoHeader
              THEN now + TicksPerSecond
              ELSE IF /\ h.remaining = 0
                      /\ h.reset # NoHeader
                      /\ h.reset * TicksPerSecond > now
                     THEN h.reset * TicksPerSecond
                     ELSE rateLimitDelay]_vars

C30_Witness ==
  /\ settled.outcome = "thrown"
  /\ processed = {[remaining |-> 0, reset |-> 2]}
  /\ rateLimitDelay = 2 * TicksPerSecond
  /\ rateLimitDelay > now
  /\ queuedRequests = 0
  /\ \E c \in Callers : pc[c] = "apiError"

(***************************************************************************)
(* Part III  The utility functions (utils/track.ts, utils/artist.ts)       *)
(*                                                                         *)
(* A string is a sequence of characters.  An optional value is the empty   *)
(* set when it is undefined and the set of its value when it is defined.   *)
(***************************************************************************)

\* Longest list of tracks, longest range string and longest artist credit.
MaxTracks == 3
MaxLen == 4
MaxCredits == 3

\* The track numbers of the tracks.
TrackNumbers == { <<"1">>, <<"2">>, <<"A", "1">>, <<"B", "1">> }

\* The lists of tracks: a track has its place in the list and its number.
TrackLists ==
  UNION { { [i \in 1..k |-> [position |-> i, number |-> numbers[i]]] :
            numbers \in [1..k -> TrackNumbers] } : k \in 0..MaxTracks }

\* The track ranges: each of first, last and prefix is undefined, empty or
\* a string.
TrackRanges ==
  [ medium : {{}},
    first : {{}, {<< >>}} \cup { {number} : number \in TrackNumbers },
    last : {{}, {<< >>}} \cup { {number} : number \in TrackNumbers },
    prefix : {{}, {<< >>}, {<<"A">>}, {<<"B">>}, {<<"A", "1">>}} ]

\* The range strings: all short strings of digits, a letter, colon and
\* hyphen, and the ranges of the tests.
RangeStrings ==
  UNION { [1..k -> {"1", "3", "C", ":", "-"}] : k \in 0..MaxLen }
    \cup { <<"T", "w", "o", "-">>, <<"2", ":", "7", "-", "1", "3">>,
           <<"1", ":", "A", "3", "-", "B", "7">>, <<"0", "1", "3", ":", "A">> }

\* The artist credits: lists of a name and a join phrase.
CreditLists ==
  UNION { [1..k -> [name : {<<"J", "o">>, <<"X">>},
                    joinphrase : {<< >>, <<" ", "&", " ">>}]] :
          k \in 0..MaxCredits }

\* Variant of ParseInt: only the first digit is read.
ParseInt_FirstDigit(digits) ==
  (CHOOSE d \in 1..10 :
     <<"0", "1", "2", "3", "4", "5", "6", "7", "8", "9">>[d] = digits[1]) - 1

\* parseInt of a non-empty string of decimal digits.
RECURSIVE ParseInt(_)
ParseInt(digits) ==
  IF digits = << >>
    THEN 0
    ELSE 10 * ParseInt(SubSeq(digits, 1, Len(digits) - 1))
         + (CHOOSE d \in 1..10 :
              <<"0", "1", "2", "3", "4", "5", "6", "7", "8", "9">>[d]
                = digits[Len(digits)]) - 1

\* parseTrackRange: the match of trackRangePattern at the start of the range.
\* The optional group (\d+): takes the leading digits when a colon follows;
\* of the rest, [^-]+ - [^-]+ takes the characters before the first hyphen
\* and the characters after it up to the next hyphen, when both are not
\* empty; otherwise .* takes the rest, which always matches.
ParseTrackRange(range) ==
  LET IsDigit(ch) == ch \in {"0", "1", "2", "3", "4", "5", "6", "7", "8", "9"}
      digits == CHOOSE k \in 0..Len(range) :
                  /\ \A i \in 1..k : IsDigit(range[i])
                  /\ k < Len(range) => ~IsDigit(range[k + 1])
      hasMedium == digits > 0 /\ digits < Len(range) /\ range[digits + 1] = ":"
      rest == IF hasMedium
                THEN SubSeq(range, digits + 2, Len(range))
                ELSE range
      hyphens == { i \in 1..Len(rest) : rest[i] = "-" }
      hyphen == CHOOSE i \in hyphens : \A j \in hyphens : i <= j
      isRange == /\ hyphens # {}
                 /\ hyphen > 1
                 /\ hyphen < Len(rest)
                 /\ rest[hyphen + 1] # "-"
      lastEnd == CHOOSE k \in (hyphen + 1)..Len(rest) :
                   /\ \A i \in (hyphen + 1)..k : rest[i] # "-"
                   /\ k < Len(rest) => rest[k + 1] = "-"
  IN [ medium |-> IF hasMedium
                    THEN {ParseInt(SubSeq(range, 1, digits))}
                    ELSE {},
       first |-> IF isRange THEN {SubSeq(rest, 1, hyphen - 1)} ELSE {},
       last |-> IF isRange THEN {SubSeq(rest, hyphen + 1, lastEnd)} ELSE {},
       prefix |-> IF isRange THEN {} ELSE {rest} ]

\* Variant of FilterTrackRange: first is looked at before prefix.
FilterTrackRange_FirstBeforePrefix(tracks, range) ==
  LET inRange[i \in 0..Len(tracks)] ==
        IF i = 0
          THEN FALSE
          ELSE IF inRange[i - 1]
                 THEN {tracks[i].number} # range.last
                 ELSE {tracks[i].number} = range.first
      StartsWith(str, prefix) ==
        Len(prefix) <= Len(str) /\ SubSeq(str, 1, Len(prefix)) = prefix
      Kept(track) == inRange[track.position - 1] \/ inRange[track.position]
      HasPrefix(track) ==
        \E prefix \in range.prefix : StartsWith(track.number, prefix)
  IN IF range.first \notin {{}, {<< >>}}
       THEN SelectSeq(tracks, Kept)
       ELSE IF range.prefix \notin {{}, {<< >>}}
              THEN SelectSeq(tracks, HasPrefix)
              ELSE tracks

\* filterTrackRange: inRange[i] is the variable inRange after the callback of
\* filter was called for the first i tracks.
FilterTrackRange(tracks, range) ==
  LET inRange[i \in 0..Len(tracks)] ==
        IF i = 0
          THEN FALSE
          ELSE IF inRange[i - 1]
                 THEN {tracks[i].number} # range.last
                 ELSE {tracks[i].number} = range.first
      StartsWith(str, prefix) ==
        Len(prefix) <= Len(str) /\ SubSeq(str, 1, Len(prefix)) = prefix
      Kept(track) == inRange[track.position - 1] \/ inRange[track.position]
      HasPrefix(track) ==
        \E prefix \in range.prefix : StartsWith(track.number, prefix)
  IN IF range.prefix \notin {{}, {<< >>}}
       THEN SelectSeq(tracks, HasPrefix)
       ELSE IF range.first \notin {{}, {<< >>}}
              THEN SelectSeq(tracks, Kept)
              ELSE tracks

\* Variant of JoinArtistCredit: the join phrase of the last credit is dropped.
RECURSIVE JoinArtistCredit_NoTrailingJoinPhrase(_)
JoinArtistCredit_NoTrailingJoinPhrase(credits) ==
  IF credits = << >>
    THEN << >>
    ELSE IF Len(credits) = 1
           THEN credits[1].name
           ELSE credits[1].name \o credits[1].joinphrase
                \o JoinArtistCredit_NoTrailingJoinPhrase(Tail(credits))

\* joinArtistCredit: flatMap makes the list of each name and join phrase, and
\* join("") concatenates its elements.
JoinArtistCredit(credits) ==
  LET flat == [i \in 1..(2 * Len(credits)) |->
                 IF i % 2 = 1
                   THEN credits[(i + 1) \div 2].name
                   ELSE credits[i \div 2].joinphrase]
      joined[i \in 0..Len(flat)] ==
        IF i = 0 THEN << >> ELSE joined[i - 1] \o flat[i]
  IN joined[Len(flat)]

InitUtils ==
  /\ ProjectionAtRest
  /\ ClientAtRest
  /\ utilIn \in [fn : {"parseTrackRange"}, range : RangeStrings]
           \cup [fn : {"filterTrackRange"}, tracks : TrackLists,
                 range : TrackRanges]
           \cup [fn : {"joinArtistCredit"}, credits : CreditLists]
  /\ utilOut = {}

\* A call of parseTrackRange returns.
ParseTrackRangeCall ==
  /\ utilIn.fn = "parseTrackRange"
  /\ utilOut = {}
  /\ utilOut' = {ParseTrackRange(utilIn.range)}
  /\ UNCHANGED << utilIn, projVars, clientVars >>

\* A call of filterTrackRange returns.
FilterTrackRangeCall ==
  /\ utilIn.fn = "filterTrackRange"
  /\ utilOut = {}
  /\ utilOut' = {FilterTrackRange(utilIn.tracks, utilIn.range)}
  /\ UNCHANGED << utilIn, projVars, clientVars >>

\* The range returned by parseTrackRange is passed to filterTrackRange.
FilterParsedRange(tracks) ==
  /\ utilIn.fn = "parseTrackRange"
  /\ utilOut # {}
  /\ \E range \in utilOut :
       /\ utilIn' = [fn |-> "filterTrackRange", tracks |-> tracks,
                     range |-> range]
       /\ utilOut' = {FilterTrackRange(tracks, range)}
  /\ UNCHANGED << projVars, clientVars >>

\* A call of joinArtistCredit returns.
JoinArtistCreditCall ==
  /\ utilIn.fn = "joinArtistCredit"
  /\ utilOut = {}
  /\ utilOut' = {JoinArtistCredit(utilIn.credits)}
  /\ UNCHANGED << utilIn, projVars, clientVars >>

NextUtils ==
  \/ ParseTrackRangeCall
  \/ FilterTrackRangeCall
  \/ \E tracks \in TrackLists : FilterParsedRange(tracks)
  \/ JoinArtistCreditCall

SpecUtils == InitUtils /\ [][NextUtils]_vars

\* The call of filterTrackRange which has returned, and what it returned.
Filtered == utilIn.fn = "filterTrackRange" /\ utilOut # {}
Absent(value) == value \in {{}, {<< >>}}

\* C16: with a range which has first and last and no prefix, filterTrackRange
\* returns exactly the tracks from the first track whose number is `first` up
\* to and including the next track whose number is `last` (the same track
\* when first and last are equal), in their order.
C16_RangeKeepsExactlyTheSpan ==
  ( /\ Filtered
    /\ utilIn.range.prefix = {}
    /\ ~Absent(utilIn.range.first)
    /\ ~Absent(utilIn.range.last) )
  => LET tracks == utilIn.tracks
         starts == { i \in 1..Len(tracks) :
                       {tracks[i].number} = utilIn.range.first }
         start == CHOOSE i \in starts : \A j \in starts : i <= j
         ends == { i \in start..Len(tracks) :
                     {tracks[i].number} = utilIn.range.last }
         end == CHOOSE i \in ends : \A j \in ends : i <= j
     IN (starts # {} /\ ends # {}) => utilOut = {SubSeq(tracks, start, end)}

C16_Witness ==
  /\ Filtered
  /\ utilIn.range.prefix = {}
  /\ utilIn.range.first = {<<"2">>}
  /\ utilIn.range.last = {<<"2">>}
  /\ utilIn.tracks = << [position |-> 1, number |-> <<"1">>],
                        [position |-> 2, number |-> <<"2">>],
                        [position |-> 3, number |-> <<"A", "1">>] >>
  /\ utilOut = {SubSeq(utilIn.tracks, 2, 3)}

\* C17: with a non-empty prefix, filterTrackRange returns exactly the tracks
\* whose number starts with the prefix, in their order, whatever first and
\* last are; with neither a prefix nor a first number it returns all tracks.
C17_PrefixTakesPrecedence ==
  Filtered
  => LET tracks == utilIn.tracks
         Begins(track) ==
           \E prefix \in utilIn.range.prefix :
             /\ Len(track.number) >= Len(prefix)
             /\ \A i \in 1..Len(prefix) : track.number[i] = prefix[i]
         kept == { i \in 1..Len(tracks) : Begins(tracks[i]) }
     IN /\ ~Absent(utilIn.range.prefix)
             => /\ \E out \in utilOut :
                     /\ Len(out) = Cardinality(kept)
                     /\ { out[i].position : i \in 1..Len(out) } = kept
                     /\ \A i, j \in 1..Len(out) :
                          i < j => out[i].position < out[j].position
                     /\ \A i \in 1..Len(out) : out[i] = tracks[out[i].position]
        /\ (Absent(utilIn.range.prefix) /\ Absent(utilIn.range.first))
             => utilOut = {tracks}

C17_Witness ==
  /\ Filtered
  /\ utilIn.range.prefix = {<<"A">>}
  /\ utilIn.range.first = {<<"1">>}
  /\ utilIn.range.last = {<<"2">>}
  /\ utilIn.tracks = << [position |-> 1, number |-> <<"1">>],
                        [position |-> 2, number |-> <<"A", "1">>],
                        [position |-> 3, number |-> <<"2">>] >>
  /\ utilOut = {<< [position |-> 2, number |-> <<"A", "1">>] >>}

\* C18: parseTrackRange returns for every string a range in which either
\* first and last are defined and prefix is undefined, or prefix is defined
\* and first and last are undefined; medium is the integer written before a
\* leading `<digits>:` and undefined without one; a string without a pair of
\* non-empty parts around a hyphen gives a prefix, the string after the
\* medium.
C18_ParsedRangeOrPrefix ==
  (utilIn.fn = "parseTrackRange" /\ utilOut # {})
  => LET str == utilIn.range
         DigitOf(ch) ==
           CHOOSE d \in 0..9 :
             <<"0", "1", "2", "3", "4", "5", "6", "7", "8", "9">>[d + 1] = ch
         IsNumeral(ch) ==
           \E d \in 1..10 :
             <<"0", "1", "2", "3", "4", "5", "6", "7", "8", "9">>[d] = ch
         colons == { k \in 2..Len(str) :
                       str[k] = ":" /\ \A i \in 1..(k - 1) : IsNumeral(str[i]) }
         colon == CHOOSE k \in colons : TRUE
         Power[i \in 0..Len(str)] == IF i = 0 THEN 1 ELSE 10 * Power[i - 1]
         written == CHOOSE m \in 0..(Power[colon - 1] - 1) :
                      \A i \in 1..(colon - 1) :
                        (m \div Power[colon - 1 - i]) % 10 = DigitOf(str[i])
         afterMedium == IF colons = {}
                          THEN str
                          ELSE SubSeq(str, colon + 1, Len(str))
         hasPair == \E i \in 2..(Len(str) - 1) :
                      str[i] = "-" /\ str[i - 1] # "-" /\ str[i + 1] # "-"
     IN \A parsed \in utilOut :
          /\ \/ parsed.first # {} /\ parsed.last # {} /\ parsed.prefix = {}
             \/ parsed.first = {} /\ parsed.last = {} /\ parsed.prefix # {}
          /\ parsed.medium = IF colons = {} THEN {} ELSE {written}
          /\ ~hasPair => parsed.prefix = {afterMedium}

C18_Witness ==
  /\ utilIn.fn = "parseTrackRange"
  /\ utilIn.range = <<"1", "3", ":">>
  /\ utilOut = {[medium |-> {13}, first |-> {}, last |-> {},
                 prefix |-> {<< >>}]}

\* C19: joinArtistCredit returns the concatenation, in the order of the list,
\* of the name of each credit followed by its join phrase: the empty string
\* for the empty list, and the join phrase of the last credit is kept.
C19_NamesAndJoinPhrasesInOrder ==
  (utilIn.fn = "joinArtistCredit" /\ utilOut # {})
  => LET credits == utilIn.credits
         Part(i) == credits[i].name \o credits[i].joinphrase
         Offset[i \in 0..Len(credits)] ==
           IF i = 0 THEN 0 ELSE Offset[i - 1] + Len(Part(i))
     IN \A joined \in utilOut :
          /\ Len(joined) = Offset[Len(credits)]
          /\ \A i \in 1..Len(credits) :
               SubSeq(joined, Offset[i - 1] + 1, Offset[i]) = Part(i)
          /\ credits = << >> => joined = << >>

C19_Witness ==
  /\ utilIn.fn = "joinArtistCredit"
  /\ utilIn.credits = << [name |-> <<"J", "o">>, joinphrase |-> <<" ", "&", " ">>],
                         [name |-> <<"X">>, joinphrase |-> <<" ", "&", " ">>] >>
  /\ utilOut = {<<"J", "o", " ", "&", " ", "X", " ", "&", " ">>}

=============================================================================
